---- MODULE Spec2Model ----
(***************************************************************************)
(* A model of perf's TextRunner (src/perf/text_runner.py) and of the       *)
(* RunResult wire format (src/perf/__init__.py).                           *)
(*                                                                         *)
(* Durations are integers, in ticks of one millisecond.  The comparison    *)
(* dt >= min_time * 0.90 of the code is made exactly, as                   *)
(* 10 * dt >= 9 * min_time.                                                *)
(***************************************************************************)
EXTENDS Integers, Sequences, FiniteSets, TLC

VARIABLES
    args,         \* self.args: the parsed command line
    inner_loops,  \* self.inner_loops
    host,         \* what the host offers: affinity facilities, isolated CPUs
    sample_func,  \* the benchmarked callable: how its timings may vary
    pc,           \* position of the process in TextRunner._main
    error,        \* the exception that ended the process, or None
    pinned,       \* the CPUs the process is restricted to, or None
    out,          \* what the process printed, in order: [stream, kind, doc]
    file,         \* the documents written to the --json-file
    index,        \* _calibrate_sample_func: the loop variable
    probes,       \* history: loops and result of each calibration call
    ncalls,       \* history: number of sample_func calls of this process
    run_result,   \* _worker: the RunResult being filled
    step,         \* _worker: how many items of _range() were consumed
    calls,        \* history: the result of each sample_func call of _worker
    bench,        \* _spawn_workers: bench.runs
    process,      \* _spawn_workers: the loop variable
    workers,      \* history: every worker process spawned, in spawn order
    given,        \* round trip: the arguments given to RunResult(...)
    text,         \* round trip: the text RunResult.json() returned
    parsed,       \* round trip: what RunResult.from_json(text) gave
    given_list,   \* the text given to _parse_cpu_list
    got_cpus      \* what _parse_cpu_list(given_list) gave

procVars == <<error, pinned, out, file>>
calVars == <<index, probes>>
workerVars == <<run_result, step, calls>>
orchVars == <<bench, process, workers>>
jsonVars == <<given, text, parsed>>
parseVars == <<given_list, got_cpus>>
vars == <<args, inner_loops, host, sample_func, pc, error, pinned, out, file,
          index, probes, ncalls, run_result, step, calls, bench, process,
          workers, given, text, parsed, given_list, got_cpus>>

None == "None"

\* self.inner_loops when it is None
NoInnerLoops == 0

----------------------------------------------------------------------------
(* Bounds of the model *)

\* sample_func of kind "increasing" returns a duration among 1..MaxTick and
\* the durations around the two thresholds
MaxTick == 10

\* the longest list of samples or warmups given to RunResult(...)
MaxLen == 2

\* the largest --warmups, --samples and --processes
MaxWarmup == 1
MaxSample == 2
MaxProcess == 2

----------------------------------------------------------------------------
(* CPU lists: _parse_cpu_list, _get_isolated_cpus *)

\* A CPU list is text: a sequence of characters, each a one-character string.
Digits == <<"0", "1", "2", "3", "4", "5", "6", "7", "8", "9">>

IsDigit(c) == \E d \in 1..10 : Digits[d] = c

DigitValue(c) == (CHOOSE d \in 1..10 : Digits[d] = c) - 1

ValueError == "ValueError"

\* the position of the first c in text s, or 0
RECURSIVE Find(_, _, _)
Find(s, c, from) ==
    IF from > Len(s) THEN 0
    ELSE IF s[from] = c THEN from
    ELSE Find(s, c, from + 1)

\* s.split(sep): the pieces of s between the separators, at least one piece
RECURSIVE Split(_, _)
Split(s, sep) ==
    LET at == Find(s, sep, 1) IN
    IF at = 0 THEN <<s>>
    ELSE <<SubSeq(s, 1, at - 1)>> \o Split(SubSeq(s, at + 1, Len(s)), sep)

\* the value of a run of digits, most significant first
RECURSIVE DigitsValue(_)
DigitsValue(s) ==
    IF s = << >> THEN 0
    ELSE 10 * DigitsValue(SubSeq(s, 1, Len(s) - 1)) + DigitValue(s[Len(s)])

\* what a call gives: a value it returns or an exception it raises
Returns(v) == [raised |-> FALSE, value |-> v]
Raises(exc) == [raised |-> TRUE, exc |-> exc]

\* int(text) for text over digits and signs: an optional sign and at least
\* one digit, anything else is a ValueError
ParseInt(s) ==
    LET signed == s # << >> /\ s[1] \in {"-", "+"}
        body == IF signed THEN Tail(s) ELSE s
    IN  IF body = << >> \/ \E i \in 1..Len(body) : ~IsDigit(body[i])
        THEN Raises(ValueError)
        ELSE IF signed /\ s[1] = "-" THEN Returns(0 - DigitsValue(body))
        ELSE Returns(DigitsValue(body))

\* list(range(first, last)): the last CPU of a range left out
Range_Exclusive(first, last) ==
    IF last <= first THEN << >>
    ELSE [i \in 1..(last - first) |-> first + i - 1]

\* list(range(first, last + 1))
Range(first, last) ==
    IF last < first THEN << >>
    ELSE [i \in 1..(last - first + 1) |-> first + i - 1]

\* the CPUs of one part of the list: a number, or first-last split at the
\* first "-"
ParsePart(part) ==
    LET at == Find(part, "-", 1) IN
    IF at > 0
    THEN LET first == ParseInt(SubSeq(part, 1, at - 1))
             last == ParseInt(SubSeq(part, at + 1, Len(part)))
         IN  IF first.raised THEN first
             ELSE IF last.raised THEN last
             ELSE Returns(Range(first.value, last.value))
    ELSE LET cpu == ParseInt(part) IN
         IF cpu.raised THEN cpu ELSE Returns(<<cpu.value>>)

RECURSIVE ParseParts(_)
ParseParts(parts) ==
    IF parts = << >> THEN Returns(<< >>)
    ELSE LET head == ParsePart(parts[1]) IN
         IF head.raised THEN head
         ELSE LET rest == ParseParts(Tail(parts)) IN
              IF rest.raised THEN rest
              ELSE Returns(head.value \o rest.value)

\* _parse_cpu_list: the list of CPUs, or the ValueError of int()
ParseCpuList(cpu_list) == ParseParts(Split(cpu_list, ","))

\* _get_isolated_cpus: isolated says whether
\* /sys/devices/system/cpu/isolated can be read, and its first line; the
\* result is the parsed list, or no list (None in the code, << >> here)
GetIsolatedCpus(isolated) ==
    IF ~isolated.readable \/ isolated.line = << >> THEN Returns(<< >>)
    ELSE ParseCpuList(isolated.line)

----------------------------------------------------------------------------
(* Python values and JSON text: json.dumps, json.loads *)

\* A Python value carries its type t.  A number is the ratio n / d, which is
\* how a float is kept: as the division that made it; a string is s; a list
\* is its items; a dict is its items in insertion order, each
\* [k |-> key, v |-> value].
PyNone == [t |-> "none", n |-> 0, d |-> 1, s |-> "", items |-> << >>]
PyInt(n) == [PyNone EXCEPT !.t = "int", !.n = n]
PyFloat(num, den) == [PyNone EXCEPT !.t = "float", !.n = num, !.d = den]
PyStr(x) == [PyNone EXCEPT !.t = "str", !.s = x]
PyList(items) == [PyNone EXCEPT !.t = "list", !.items = items]
PyDict(items) == [PyNone EXCEPT !.t = "dict", !.items = items]

Item(k, v) == [k |-> k, v |-> v]

\* key in d
HasKey(d, k) == \E i \in 1..Len(d.items) : d.items[i].k = k

\* d[key], for a key that d has: the last item of that key
GetItem(d, k) ==
    LET at == CHOOSE i \in 1..Len(d.items) :
                  /\ d.items[i].k = k
                  /\ \A j \in (i + 1)..Len(d.items) : d.items[j].k # k
    IN  d.items[at].v

\* d.get(key)
DictGet(d, k) == IF HasKey(d, k) THEN GetItem(d, k) ELSE PyNone

\* JSON text is a sequence of tokens: punctuation, strings, null, and numbers.
\* A number is written with a fraction or an exponent exactly when it is a
\* float, and that is how it is read back.
Punct(c) == [tok |-> c, v |-> PyNone]
NumberToken(x) == [tok |-> "number", v |-> x]
StringToken(x) == [tok |-> "string", v |-> PyStr(x)]

RECURSIVE Dumps(_)
RECURSIVE DumpItems(_, _)
\* the items of a list (keyed = FALSE) or of a dict, separated by commas
DumpItems(items, keyed) ==
    IF items = << >> THEN << >>
    ELSE LET one == IF keyed
                    THEN <<StringToken(items[1].k), Punct(":")>> \o Dumps(items[1].v)
                    ELSE Dumps(items[1])
         IN  IF Len(items) = 1 THEN one
             ELSE one \o <<Punct(",")>> \o DumpItems(Tail(items), keyed)

\* json.dumps(x)
Dumps(x) ==
    CASE x.t = "none" -> <<Punct("null")>>
      [] x.t \in {"int", "float"} -> <<NumberToken(x)>>
      [] x.t = "str" -> <<StringToken(x.s)>>
      [] x.t = "list" -> <<Punct("[")>> \o DumpItems(x.items, FALSE) \o <<Punct("]")>>
      [] x.t = "dict" -> <<Punct("{")>> \o DumpItems(x.items, TRUE) \o <<Punct("}")>>

\* The parser: each operator reads one construct of text ts from position i
\* and gives [ok, value, next]: the value read and the position after it.
Read(value, next) == [ok |-> TRUE, value |-> value, next |-> next]
Unread == [ok |-> FALSE, value |-> PyNone, next |-> 0]

TokAt(ts, i) == IF i \in 1..Len(ts) THEN ts[i].tok ELSE "end"

RECURSIVE ReadValue(_, _)
RECURSIVE ReadItems(_, _, _, _)
\* the items after "[" or "{", acc being the items read so far; i is at an
\* item, or at the closing bracket of an empty list or dict
ReadItems(ts, i, acc, keyed) ==
    LET close == IF keyed THEN "}" ELSE "]" IN
    IF acc = << >> /\ TokAt(ts, i) = close
    THEN Read(IF keyed THEN PyDict(acc) ELSE PyList(acc), i + 1)
    ELSE LET at == IF keyed THEN i + 2 ELSE i
             wellKeyed == ~keyed \/ (TokAt(ts, i) = "string" /\ TokAt(ts, i + 1) = ":")
             one == IF wellKeyed THEN ReadValue(ts, at) ELSE Unread
         IN  IF ~one.ok THEN Unread
             ELSE LET item == IF keyed THEN Item(ts[i].v.s, one.value) ELSE one.value
                      more == Append(acc, item)
                  IN  IF TokAt(ts, one.next) = ","
                      THEN IF TokAt(ts, one.next + 1) = close THEN Unread
                           ELSE ReadItems(ts, one.next + 1, more, keyed)
                      ELSE IF TokAt(ts, one.next) = close
                      THEN Read(IF keyed THEN PyDict(more) ELSE PyList(more), one.next + 1)
                      ELSE Unread

ReadValue(ts, i) ==
    CASE TokAt(ts, i) = "null" -> Read(PyNone, i + 1)
      [] TokAt(ts, i) = "number" -> Read(ts[i].v, i + 1)
      [] TokAt(ts, i) = "string" -> Read(ts[i].v, i + 1)
      [] TokAt(ts, i) = "[" -> ReadItems(ts, i + 1, << >>, FALSE)
      [] TokAt(ts, i) = "{" -> ReadItems(ts, i + 1, << >>, TRUE)
      [] OTHER -> Unread

\* json.loads(text): the value, or ValueError when text is not one JSON value
Loads(ts) ==
    LET r == ReadValue(ts, 1) IN
    IF r.ok /\ r.next = Len(ts) + 1 THEN Returns(r.value) ELSE Raises(ValueError)

----------------------------------------------------------------------------
(* RunResult: __init__, _json, json, _from_json, from_json *)

TypeError == "TypeError"
KeyError == "KeyError"

\* isinstance(value, float) and value >= 0
IsFloatGeZero(x) == x.t = "float" /\ x.n >= 0

\* RunResult(samples, warmups, loops): the object, or the TypeError of the
\* checks.  samples and warmups are lists, or PyNone for the default.
RunResult_init(samples, warmups, loops) ==
    IF ~(loops.t = "none" \/ (loops.t = "int" /\ loops.n >= 0))
    THEN Raises(TypeError)
    ELSE IF samples.t # "none" /\ \E i \in 1..Len(samples.items) : ~IsFloatGeZero(samples.items[i])
    THEN Raises(TypeError)
    ELSE IF warmups.t # "none" /\ \E i \in 1..Len(warmups.items) : ~IsFloatGeZero(warmups.items[i])
    THEN Raises(TypeError)
    ELSE Returns([samples |-> IF samples.t = "none" THEN << >> ELSE samples.items,
                  loops |-> loops,
                  warmups |-> IF warmups.t = "none" THEN << >> ELSE warmups.items])

\* _json without its test of self.loops
RunResult__json_AlwaysLoops(r) ==
    PyDict(<<Item("version", PyInt(1)),
             Item("samples", PyList(r.samples)),
             Item("warmups", PyList(r.warmups)),
             Item("loops", r.loops)>>)

\* RunResult._json
RunResult__json(r) ==
    PyDict(<<Item("version", PyInt(1)),
           Item("samples", PyList(r.samples)),
           Item("warmups", PyList(r.warmups))>>
         \o (IF r.loops.t # "none" THEN <<Item("loops", r.loops)>> ELSE << >>))

\* RunResult.json
RunResult_json(r) == Dumps(PyDict(<<Item("run_result", RunResult__json(r))>>))

\* RunResult._from_json
RunResult__from_json(data) ==
    IF data.t # "dict" THEN Raises(TypeError)
    ELSE IF DictGet(data, "version") # PyInt(1) THEN Raises(ValueError)
    ELSE IF ~HasKey(data, "samples") \/ ~HasKey(data, "warmups") THEN Raises(KeyError)
    ELSE RunResult_init(GetItem(data, "samples"), GetItem(data, "warmups"),
                        DictGet(data, "loops"))

\* RunResult.from_json
RunResult_from_json(ts) ==
    LET data == Loads(ts) IN
    IF data.raised THEN data
    ELSE IF data.value.t # "dict" THEN Raises(TypeError)
    ELSE IF ~HasKey(data.value, "run_result") THEN Raises(ValueError)
    ELSE RunResult__from_json(GetItem(data.value, "run_result"))

\* the placeholders of a process that has built no RunResult
NoRunResult == [samples |-> << >>, loops |-> PyNone, warmups |-> << >>]
NoArguments == [samples |-> PyNone, warmups |-> PyNone, loops |-> PyNone]

----------------------------------------------------------------------------
(* Output *)

\* a _stream that always is the standard output
Stream_Stdout(a) == "stdout"

\* TextRunner._stream
Stream(a) == IF a.json THEN "stderr" ELSE "stdout"

\* a line of text of the given kind printed to a stream
Line(stream, kind) == [stream |-> stream, kind |-> kind, doc |-> << >>]

\* _json_dump(bench, args), doc being the text bench.json_dump_into writes:
\* what it adds to the --json-file and what it prints
JsonDump_file(a, doc) == IF a.json_file THEN <<doc>> ELSE << >>
JsonDump_out(a, doc) ==
    IF ~a.json_file /\ a.json
    THEN <<[stream |-> "stdout", kind |-> "json", doc |-> doc]>>
    ELSE << >>

\* print(text, file=self._stream())
Message(a, kind) == Line(Stream(a), kind)

----------------------------------------------------------------------------
(* CPU affinity: TextRunner._cpu_affinity *)

\* str(n)
RECURSIVE FormatInt(_)
FormatInt(n) ==
    IF n < 0 THEN <<"-">> \o FormatInt(0 - n)
    ELSE IF n < 10 THEN <<Digits[n + 1]>>
    ELSE FormatInt(n \div 10) \o <<Digits[(n % 10) + 1]>>

\* perf._format_cpu_list: the CPUs as text that _parse_cpu_list reads back
RECURSIVE FormatCpuList(_)
FormatCpuList(cpus) ==
    IF cpus = << >> THEN << >>
    ELSE IF Len(cpus) = 1 THEN FormatInt(cpus[1])
    ELSE FormatInt(cpus[1]) \o <<",">> \o FormatCpuList(Tail(cpus))

UnboundLocalError == "UnboundLocalError"

\* The exception that ended the process: its type and, for the failure of a
\* worker process, what from_subprocess was given and saw.
NoArgv == [raw |-> FALSE, json |-> FALSE, samples |-> << >>, warmups |-> << >>,
           loops |-> << >>, verbose |-> 0, affinity |-> << >>]
NoError == [exc |-> None, argv |-> NoArgv, returncode |-> 0]
Failure(exc) == [NoError EXCEPT !.exc = exc]

\* a host without affinity facility and without isolated CPUs
NoHost == [has_sched_setaffinity |-> FALSE, psutil_has_cpu_affinity |-> FALSE,
           isolated |-> [readable |-> FALSE, line |-> << >>]]

\* has_sched_setaffinity, or psutil_has_cpu_affinity when it is looked at
CanPin(h) == h.has_sched_setaffinity \/ h.psutil_has_cpu_affinity

\* isolated CPUs were found and there is no facility: the process ends,
\* as it does when --affinity cannot be honoured
IsolatedUnpinnable_Fatal(a, quiet) ==
    [quiet EXCEPT !.msgs = <<Line("stderr", "error")>>,
                  !.raised = TRUE, !.exc = "SystemExit"]

\* isolated CPUs were found and there is no facility: two lines of warning,
\* and the return
IsolatedUnpinnable(a, quiet) ==
    [quiet EXCEPT !.msgs = <<Message(a, "warning"), Message(a, "warning")>>]

\* What one call of _cpu_affinity does: the lines it prints, the CPU list it
\* hands to os.sched_setaffinity or psutil (pin: none or one), the value of
\* args.affinity it leaves, and whether it returns or raises.  Without a
\* facility and with --affinity set it prints the ERROR line, then reads the
\* local `stream`, which only the other branch assigns.
CpuAffinity_result(a, h) ==
    LET quiet == [raised |-> FALSE, exc |-> None, msgs |-> << >>,
                  pin |-> << >>, affinity |-> a.affinity]
    IN
    IF a.affinity = << >>
    THEN LET isolated == GetIsolatedCpus(h.isolated) IN
         IF isolated.raised
         THEN [quiet EXCEPT !.raised = TRUE, !.exc = isolated.exc]
         ELSE IF isolated.value = << >> THEN quiet
         ELSE IF ~CanPin(h) THEN IsolatedUnpinnable(a, quiet)
         ELSE [quiet EXCEPT
                 !.msgs = IF a.verbose > 0 THEN <<Message(a, "affinity")>> ELSE << >>,
                 !.affinity = FormatCpuList(isolated.value),
                 !.pin = <<isolated.value>>]
    ELSE LET cpus == ParseCpuList(a.affinity)
             said == IF a.verbose > 0 THEN <<Message(a, "affinity")>> ELSE << >>
         IN
         IF cpus.raised
         THEN [quiet EXCEPT !.raised = TRUE, !.exc = cpus.exc]
         ELSE IF CanPin(h)
         THEN [quiet EXCEPT !.msgs = said, !.pin = <<cpus.value>>]
         ELSE [quiet EXCEPT !.msgs = said \o <<Line("stderr", "error")>>,
                            !.raised = TRUE, !.exc = UnboundLocalError]

\* _main, from self._cpu_affinity() to the test of args.loops
CpuAffinity ==
    /\ pc = "affinity"
    /\ LET r == CpuAffinity_result(args, host) IN
         /\ out' = out \o r.msgs
         /\ pinned' = pinned \o r.pin
         /\ args' = [args EXCEPT !.affinity = r.affinity]
         /\ IF r.raised
            THEN /\ error' = Failure(r.exc)
                 /\ pc' = "exit"
            ELSE /\ error' = error
                 /\ pc' = IF args.loops = 0 THEN "calibrate" ELSE "dispatch"
    /\ UNCHANGED <<inner_loops, host, sample_func, file, ncalls>>
    /\ UNCHANGED <<calVars, workerVars, orchVars, jsonVars, parseVars>>

----------------------------------------------------------------------------
(* Calibration: TextRunner._calibrate_sample_func *)

\* range(0, 10)
NProbes == 10

RECURSIVE Pow10(_)
Pow10(k) == IF k = 0 THEN 1 ELSE 10 * Pow10(k - 1)

Max(a, b) == IF a >= b THEN a ELSE b

\* dt >= min_dt, with min_dt = self.args.min_time * 0.90
ReachesMin(dt, a) == 10 * dt >= 9 * a.min_time

\* dt >= max_dt, with max_dt = self.args.max_time
ReachesMax(dt, a) == dt >= a.max_time

\* the (min_time, max_time) pairs of the model, the defaults of the code first
TimeBounds == { <<100, 1000>>, <<20, 30>> }

\* durations around the two thresholds of a configuration
EdgeTimes(a) ==
    { (9 * a.min_time) \div 10 - 1, (9 * a.min_time) \div 10, a.min_time,
      a.max_time - 1, a.max_time, a.max_time + 1 }

\* The durations a call sample_func(loops) may return, given the durations
\* prev of the earlier calls:
\*   "linear"     cost ticks per loop, and up to jitter ticks more
\*   "free"       any of a few durations, whatever was measured before
\*   "increasing" any duration above the one measured before
SampleTimes(f, a, loops, prev) ==
    CASE f.kind = "linear" -> { loops * f.cost + j : j \in 0..f.jitter }
      [] f.kind = "free" -> { 1 } \cup EdgeTimes(a)
      [] f.kind = "increasing" ->
            { t \in (1..MaxTick) \cup EdgeTimes(a) :
                prev = << >> \/ t > prev[Len(prev)] }

\* a loop that only a break ends
CalibrateStops_Unbounded(i, dt, a) == ReachesMax(dt, a) \/ ReachesMin(dt, a)

\* a loop without the break of `if dt >= min_dt`
CalibrateStops_MaxOnly(i, dt, a) == ReachesMax(dt, a) \/ i = NProbes - 1

\* the loop body at index i with sample_func(loops) = dt: whether the loop
\* ends there (a break, or the last index of the range)
CalibrateStops(i, dt, a) ==
    ReachesMax(dt, a) \/ ReachesMin(dt, a) \/ i = NProbes - 1

\* the loop without the step back of `index = max(index - 1, 0)`
CalibrateIndex_NoStepBack(i, dt, a) == i

\* ... and the value of `index` the loop is left with
CalibrateIndex(i, dt, a) ==
    IF ReachesMax(dt, a) THEN Max(i - 1, 0) ELSE i

\* the durations of a sequence of recorded calls
Durations(ps) == [i \in 1..Len(ps) |-> ps[i].dt]

\* the lines one iteration prints when verbose > 1: the probe, and
\* "calibration: use ..." once the loop has ended
CalibrateMessages(a, stops) ==
    IF a.verbose > 1
    THEN <<Message(a, "calibration")>>
           \o (IF stops THEN <<Message(a, "calibration")>> ELSE << >>)
    ELSE << >>

\* One iteration of the for loop: one call of sample_func.  When the loop
\* ends, the function returns 10 ** index and _main stores it in args.loops.
CalibrateProbe ==
    /\ pc = "calibrate"
    /\ \E dt \in SampleTimes(sample_func, args, Pow10(index), Durations(probes)) :
         /\ probes' = Append(probes, [loops |-> Pow10(index), dt |-> dt])
         /\ ncalls' = ncalls + 1
         /\ out' = out \o CalibrateMessages(args, CalibrateStops(index, dt, args))
         /\ IF CalibrateStops(index, dt, args)
            THEN /\ index' = CalibrateIndex(index, dt, args)
                 /\ args' = [args EXCEPT !.loops = Pow10(index')]
                 /\ pc' = "dispatch"
            ELSE /\ index' = index + 1
                 /\ UNCHANGED <<args, pc>>
    /\ UNCHANGED <<inner_loops, host, sample_func, error, pinned, file>>
    /\ UNCHANGED <<workerVars, orchVars, jsonVars, parseVars>>

----------------------------------------------------------------------------
(* The worker: TextRunner._worker, _range, _add, _display_run_result_avg *)

\* _range: the item at position i (from 0) of the nwarmup warmups and the
\* nsample samples: (is_warmup, run)
RangeItem(a, i) ==
    IF i < a.nwarmup THEN [is_warmup |-> TRUE, run |-> i]
    ELSE [is_warmup |-> FALSE, run |-> i - a.nwarmup]

RangeLen(a) == a.nwarmup + a.nsample

\* dt = float(dt) / loops, and dt /= self.inner_loops when it is set
Normalize(dt, loops, inner) ==
    IF inner = NoInnerLoops THEN PyFloat(dt, loops) ELSE PyFloat(dt, loops * inner)

\* _add without its test of is_warmup
Add_AllSamples(r, is_warmup, sample) == [r EXCEPT !.samples = Append(@, sample)]

\* _add: run_result with the sample appended to warmups or to samples
Add(r, is_warmup, sample) ==
    IF is_warmup THEN [r EXCEPT !.warmups = Append(@, sample)]
    ELSE [r EXCEPT !.samples = Append(@, sample)]

\* _worker up to its loop: the check of --loops, the new RunResult
WorkerStart ==
    /\ pc = "dispatch"
    /\ args.raw
    /\ IF args.loops < 1
       THEN /\ error' = Failure(ValueError)
            /\ pc' = "exit"
            /\ UNCHANGED run_result
       ELSE /\ run_result' = RunResult_init(PyNone, PyNone, PyInt(args.loops)).value
            /\ pc' = "sampling"
            /\ UNCHANGED error
    /\ UNCHANGED <<args, inner_loops, host, sample_func, pinned, out, file, ncalls>>
    /\ UNCHANGED <<calVars, step, calls, orchVars, jsonVars, parseVars>>

\* one iteration of the loop of _worker: one call of sample_func, and _add
WorkerSample ==
    /\ pc = "sampling"
    /\ step < RangeLen(args)
    /\ \E dt \in SampleTimes(sample_func, args, args.loops, calls) :
         LET item == RangeItem(args, step) IN
         /\ calls' = Append(calls, dt)
         /\ ncalls' = ncalls + 1
         /\ run_result' = Add(run_result, item.is_warmup,
                              Normalize(dt, args.loops, inner_loops))
         /\ out' = out \o (IF args.verbose > 0 THEN <<Message(args, "sample")>> ELSE << >>)
    /\ step' = step + 1
    /\ UNCHANGED <<args, inner_loops, host, sample_func, pc, error, pinned, file>>
    /\ UNCHANGED <<calVars, orchVars, jsonVars, parseVars>>

\* the end of _worker: _display_run_result_avg, whose run_result.format()
\* takes the mean of the samples and raises when there is none, then
\* _json_dump, and the return
WorkerFinish ==
    /\ pc = "sampling"
    /\ step = RangeLen(args)
    /\ LET shown == IF args.metadata THEN <<Message(args, "metadata")>> ELSE << >>
           doc == RunResult_json(run_result)
       IN  IF run_result.samples = << >>
           THEN /\ out' = out \o shown
                /\ error' = Failure(ValueError)
                /\ pc' = "exit"
                /\ UNCHANGED file
           ELSE /\ out' = out \o shown \o <<Message(args, "average")>>
                             \o JsonDump_out(args, doc)
                /\ file' = file \o JsonDump_file(args, doc)
                /\ pc' = "done"
                /\ UNCHANGED error
    /\ UNCHANGED <<args, inner_loops, host, sample_func, pinned, ncalls>>
    /\ UNCHANGED <<calVars, workerVars, orchVars, jsonVars, parseVars>>

----------------------------------------------------------------------------
(* The orchestrator: TextRunner._spawn_workers, _spawn_worker *)

RuntimeError == "RuntimeError"

\* a command line that leaves the calibration to the worker
SpawnArgv_Uncalibrated(a) ==
    [raw |-> TRUE, json |-> TRUE,
     samples |-> FormatInt(a.nsample),
     warmups |-> FormatInt(a.nwarmup),
     loops |-> FormatInt(0),
     verbose |-> a.verbose,
     affinity |-> a.affinity]

\* _spawn_worker: the options of the command line of a worker process, the
\* numbers as the text str() gives; prepare_subprocess_args is None, as
\* __init__ leaves it
SpawnArgv(a) ==
    [raw |-> TRUE, json |-> TRUE,
     samples |-> FormatInt(a.nsample),
     warmups |-> FormatInt(a.nwarmup),
     loops |-> FormatInt(a.loops),
     verbose |-> a.verbose,
     affinity |-> a.affinity]

\* the durations per loop a worker process may report
ChildTimes == 1..2

\* the RunResult a worker process builds from its command line when every
\* sample takes t ticks per loop
ChildRunResult(argv, t) ==
    [samples |-> [i \in 1..ParseInt(argv.samples).value |-> PyFloat(t, 1)],
     loops |-> PyInt(ParseInt(argv.loops).value),
     warmups |-> [i \in 1..ParseInt(argv.warmups).value |-> PyFloat(t, 1)]]

\* the command lines a worker process may go on with after the test of
\* args.loops in its _main: given --loops 0 it calibrates for itself and
\* goes on with a power of ten
ChildCalibrated(argv) ==
    IF ParseInt(argv.loops).value = 0
    THEN { [argv EXCEPT !.loops = FormatInt(Pow10(k))] : k \in 0..1 }
    ELSE { argv }

\* How a worker process may end: its exit status and what it wrote to its
\* standard output.  It is this program run with --raw --json: it fails when
\* --loops is below 0 or --samples is 0, as _worker does, and may fail for a
\* reason of its own; it may also end with status 0 and a truncated document.
ChildEndings(argv) ==
    LET failed == [returncode |-> 1, stdout |-> << >>] IN
    IF ParseInt(argv.loops).value < 0 \/ ParseInt(argv.samples).value = 0
    THEN { failed }
    ELSE { failed }
           \cup { [returncode |-> 0, stdout |-> RunResult_json(ChildRunResult(a, t))] :
                    a \in ChildCalibrated(argv), t \in ChildTimes }
           \cup { [returncode |-> 0,
                   stdout |-> SubSeq(RunResult_json(ChildRunResult(argv, 1)), 1, 3)] }

\* RunResult.from_subprocess, once the process has ended: the RunResult read
\* from its standard output, or the error of a non-zero exit status or of
\* from_json
FromSubprocess(w) ==
    IF w.returncode # 0
    THEN [raised |-> TRUE,
          error |-> [exc |-> RuntimeError, argv |-> w.argv, returncode |-> w.returncode]]
    ELSE LET r == RunResult_from_json(w.stdout) IN
         IF r.raised
         THEN [raised |-> TRUE,
               error |-> [exc |-> r.exc, argv |-> w.argv, returncode |-> w.returncode]]
         ELSE [raised |-> FALSE, value |-> r.value]

\* bench.runs.insert(0, run)
AppendRun_Front(runs, run) == <<run>> \o runs

\* bench.runs.append(run)
AppendRun(runs, run) == Append(runs, run)

\* the line printed after a run: "Run i/n: ..." or a dot
RunMessage(a) == IF a.verbose > 1 THEN Message(a, "run") ELSE Message(a, "dot")

\* Results.json, for a benchmark without name and metadata
Results_json(runs) ==
    Dumps(PyDict(<<Item("results",
        PyDict(<<Item("version", PyInt(1)),
                 Item("runs", PyList([i \in 1..Len(runs) |-> RunResult__json(runs[i])])),
                 Item("metadata", PyDict(<< >>))>>))>>))

\* _spawn_workers up to its loop
SpawnWorkersStart ==
    /\ pc = "dispatch"
    /\ ~args.raw
    /\ bench' = << >>
    /\ process' = 0
    /\ pc' = "spawn"
    /\ UNCHANGED <<args, inner_loops, host, sample_func, procVars, ncalls>>
    /\ UNCHANGED <<calVars, workerVars, workers, jsonVars, parseVars>>

\* _spawn_worker up to the start of the worker process
SpawnWorker ==
    /\ pc = "spawn"
    /\ process < args.processes
    /\ workers' = Append(workers, [argv |-> SpawnArgv(args), status |-> "running",
                                   returncode |-> 0, stdout |-> << >>])
    /\ pc' = "wait"
    /\ UNCHANGED <<args, inner_loops, host, sample_func, procVars, ncalls>>
    /\ UNCHANGED <<calVars, workerVars, bench, process, jsonVars, parseVars>>

\* a running worker process ends
WorkerExits ==
    /\ \E i \in 1..Len(workers) :
         /\ workers[i].status = "running"
         /\ \E e \in ChildEndings(workers[i].argv) :
              workers' = [workers EXCEPT ![i] = [@ EXCEPT !.status = "exited",
                                                          !.returncode = e.returncode,
                                                          !.stdout = e.stdout]]
    /\ UNCHANGED <<args, inner_loops, host, sample_func, pc, procVars, ncalls>>
    /\ UNCHANGED <<calVars, workerVars, bench, process, jsonVars, parseVars>>

\* a loop that catches the error of a worker and goes on to the next one
CollectRun_SkipFailed ==
    /\ pc = "wait"
    /\ workers[Len(workers)].status = "exited"
    /\ LET r == FromSubprocess(workers[Len(workers)]) IN
         /\ bench' = IF r.raised THEN bench ELSE AppendRun(bench, r.value)
         /\ out' = Append(out, RunMessage(args))
         /\ process' = process + 1
         /\ pc' = "spawn"
         /\ UNCHANGED error
    /\ UNCHANGED <<args, inner_loops, host, sample_func, pinned, file, ncalls>>
    /\ UNCHANGED <<calVars, workerVars, workers, jsonVars, parseVars>>

\* from_subprocess returns or raises, and the rest of the loop body
CollectRun ==
    /\ pc = "wait"
    /\ workers[Len(workers)].status = "exited"
    /\ LET r == FromSubprocess(workers[Len(workers)]) IN
         IF r.raised
         THEN /\ error' = r.error
              /\ pc' = "exit"
              /\ UNCHANGED <<bench, process, out>>
         ELSE /\ bench' = AppendRun(bench, r.value)
              /\ out' = Append(out, RunMessage(args))
              /\ process' = process + 1
              /\ pc' = "spawn"
              /\ UNCHANGED error
    /\ UNCHANGED <<args, inner_loops, host, sample_func, pinned, file, ncalls>>
    /\ UNCHANGED <<calVars, workerVars, workers, jsonVars, parseVars>>

\* _spawn_workers after its loop
SpawnWorkersFinish ==
    /\ pc = "spawn"
    /\ process >= args.processes
    /\ LET doc == Results_json(bench) IN
         /\ out' = out \o (IF args.verbose <= 1 THEN <<Message(args, "newline")>> ELSE << >>)
                       \o (IF args.metadata THEN <<Message(args, "metadata")>> ELSE << >>)
                       \o <<Message(args, "average")>>
                       \o JsonDump_out(args, doc)
         /\ file' = file \o JsonDump_file(args, doc)
    /\ pc' = "done"
    /\ UNCHANGED <<args, inner_loops, host, sample_func, error, pinned, ncalls>>
    /\ UNCHANGED <<calVars, workerVars, orchVars, jsonVars, parseVars>>

----------------------------------------------------------------------------
(* A session: TextRunner._main, from the parsed command line on *)

\* text of CPU lists
Cpus01 == <<"0", "-", "1">>
Cpus23 == <<"2", "-", "3">>

\* parse_args: verbose sets metadata
ParsedArgs(a) == [a EXCEPT !.metadata = a.metadata \/ a.verbose > 0]

Hosts ==
    { [has_sched_setaffinity |-> s, psutil_has_cpu_affinity |-> FALSE,
       isolated |-> iso] :
        s \in BOOLEAN,
        iso \in { [readable |-> FALSE, line |-> << >>],
                  [readable |-> TRUE, line |-> Cpus23] } }

Init ==
    /\ \E raw \in BOOLEAN, json \in BOOLEAN, json_file \in BOOLEAN,
          loops \in {-1, 0, 3}, nsample \in 0..MaxSample, nwarmup \in 0..MaxWarmup,
          processes \in 0..MaxProcess, verbose \in 0..2, metadata \in BOOLEAN,
          affinity \in { << >>, Cpus01 }, inner \in { NoInnerLoops, 2 } :
         /\ raw => processes = 1
         /\ ~raw => inner = NoInnerLoops
         \* the orchestrator only hands the two counts on to its workers
         /\ ~raw => nsample \in {0, MaxSample} /\ nwarmup \in {0, MaxWarmup}
         /\ args = ParsedArgs(
                [raw |-> raw, json |-> json, json_file |-> json_file,
                 loops |-> loops, nsample |-> nsample, nwarmup |-> nwarmup,
                 processes |-> processes, verbose |-> verbose,
                 metadata |-> metadata, affinity |-> affinity,
                 min_time |-> 2, max_time |-> 1000])
         /\ inner_loops = inner
    /\ host \in Hosts
    /\ sample_func = [kind |-> "linear", cost |-> 1, jitter |-> 1]
    /\ pc = "affinity"
    /\ error = NoError
    /\ pinned = << >>
    /\ out = << >>
    /\ file = << >>
    /\ index = 0
    /\ probes = << >>
    /\ ncalls = 0
    /\ run_result = NoRunResult
    /\ step = 0
    /\ calls = << >>
    /\ bench = << >>
    /\ process = 0
    /\ workers = << >>
    /\ given = NoArguments
    /\ text = << >>
    /\ parsed = Raises(None)
    /\ given_list = << >>
    /\ got_cpus = Raises(None)

Next ==
    \/ CpuAffinity
    \/ CalibrateProbe
    \/ WorkerStart
    \/ WorkerSample
    \/ WorkerFinish
    \/ SpawnWorkersStart
    \/ SpawnWorker
    \/ WorkerExits
    \/ CollectRun
    \/ SpawnWorkersFinish

Spec == Init /\ [][Next]_vars

----------------------------------------------------------------------------
(* Claims about a session, checked under Spec *)

\* the samples of the worker loop so far, as the loop normalizes them
Observed(i) ==
    PyFloat(calls[i],
            IF inner_loops = NoInnerLoops THEN args.loops ELSE args.loops * inner_loops)

\* the worker loop has consumed all of _range()
SampledAll == args.raw /\ pc \in {"sampling", "done", "exit"} /\ step = args.nwarmup + args.nsample

\* C3: a worker pass with nwarmup = W and nsample = S calls sample_func W + S
\* times; the results of the first W calls are in warmups and those of the
\* next S calls in samples, in call order: warmups followed by samples is
\* the sequence of the calls made, nothing dropped, moved or reordered
C3_WarmupsThenSamples ==
    /\ Len(calls) = step
    /\ Len(calls) <= args.nwarmup + args.nsample
    /\ Len(run_result.warmups) = (IF step < args.nwarmup THEN step ELSE args.nwarmup)
    /\ run_result.warmups \o run_result.samples = [i \in 1..Len(calls) |-> Observed(i)]
    /\ SampledAll =>
         /\ Len(calls) = args.nwarmup + args.nsample
         /\ Len(run_result.warmups) = args.nwarmup
         /\ Len(run_result.samples) = args.nsample
    /\ pc = "done" /\ args.raw => SampledAll

\* a finished pass of one warmup and two samples whose timings differ
C3_Witness ==
    /\ args.raw /\ pc = "done"
    /\ args.nwarmup = 1 /\ args.nsample = 2
    /\ calls[1] # calls[2] /\ calls[2] # calls[3]
    /\ run_result.warmups = <<Observed(1)>>
    /\ run_result.samples = <<Observed(2), Observed(3)>>

\* C4: when --loops is below 1 (and not the 0 that asks for calibration),
\* the session fails before sample_func is called, before the CPU affinity
\* is changed and before a worker process is spawned
C4_LoopsCheckedFirst ==
    args.loops < 0 => ncalls = 0 /\ pinned = << >> /\ workers = << >>

Running == { i \in 1..Len(workers) : workers[i].status = "running" }

\* C5: at most one worker process runs at a time; a worker is spawned only
\* when the RunResult of every earlier one is in bench.runs; bench.runs[i]
\* is what the i-th spawned worker wrote; a session that ends well has
\* spawned args.processes workers and has as many runs
C5_OneWorkerAtATime ==
    /\ Cardinality(Running) <= 1
    /\ Len(workers) \in {Len(bench), Len(bench) + 1}
    /\ Len(workers) = Len(bench) + 1 => pc \in {"wait", "exit"}
    /\ \A i \in 1..Len(bench) :
         /\ workers[i].status = "exited" /\ workers[i].returncode = 0
         /\ bench[i] = RunResult_from_json(workers[i].stdout).value
    /\ pc = "done" /\ ~args.raw =>
         /\ Len(bench) = args.processes
         /\ Len(workers) = args.processes

\* two workers with different results, both collected
C5_Witness ==
    /\ pc = "done" /\ ~args.raw
    /\ Len(bench) = 2
    /\ bench[1] # bench[2]

\* a worker process that ended with a non-zero status or unreadable output
FailedWorker(w) ==
    /\ w.status = "exited"
    /\ w.returncode # 0 \/ RunResult_from_json(w.stdout).raised

JsonEmitted == file # << >> \/ \E i \in 1..Len(out) : out[i].kind = "json"

\* C6: when a worker fails, it is the last worker ever spawned (none is
\* spawned after it and it is not run again), the session ends with its
\* error instead of returning a Benchmark, and no JSON document is written,
\* to the standard output or to the JSON file
C6_WorkerFailureAborts ==
    \A i \in 1..Len(workers) :
        FailedWorker(workers[i]) =>
            /\ i = Len(workers)
            /\ Len(bench) = i - 1
            /\ pc \in {"wait", "exit"}
            /\ pc = "exit" => error.exc # None
            /\ ~JsonEmitted

\* the first of two workers failed and the session has ended
C6_Witness ==
    /\ ~args.raw /\ args.processes = 2
    /\ pc = "exit"
    /\ Len(workers) = 1 /\ FailedWorker(workers[1])
    /\ error.exc = RuntimeError

\* the error from_subprocess raises for worker w had it ended as worker v did
ErrorAs(w, v) ==
    FromSubprocess([w EXCEPT !.status = v.status, !.returncode = v.returncode,
                             !.stdout = v.stdout]).error

\* C7: when worker k fails, the error of the session identifies k: no other
\* worker of the session, ending the same way, would have given this error
C7_ErrorNamesWorker ==
    (pc = "exit" /\ workers # << >>) =>
        \A j \in 1..(Len(workers) - 1) :
            ErrorAs(workers[j], workers[Len(workers)]) # error

\* the lines a finished or running process printed to its standard output
StdoutLines == { i \in 1..Len(out) : out[i].stream = "stdout" }

\* C9: a worker run (--raw --json, no --json-file) prints to its standard
\* output nothing but the JSON document of its RunResult: at most once, as
\* the last thing printed, after all nwarmup + nsample calls, and exactly
\* once when the run ends well; every other line goes to the standard error
C9_OneDocumentOnStdout ==
    (args.raw /\ args.json /\ ~args.json_file) =>
        /\ \A i \in StdoutLines :
             /\ out[i].kind = "json"
             /\ i = Len(out)
             /\ out[i].doc = RunResult_json(run_result)
             /\ Len(calls) = args.nwarmup + args.nsample
             /\ Len(run_result.warmups) + Len(run_result.samples) = Len(calls)
        /\ \A i \in 1..Len(out) : out[i].kind = "json" => out[i].stream = "stdout"
        /\ Cardinality(StdoutLines) <= 1
        /\ pc = "done" => Cardinality(StdoutLines) = 1

\* a verbose worker that pinned itself, calibrated, sampled and wrote its
\* document after the lines of all of these
C9_Witness ==
    /\ args.raw /\ args.json /\ ~args.json_file /\ pc = "done"
    /\ args.verbose = 2 /\ pinned # << >> /\ probes # << >>
    /\ args.nwarmup = 1 /\ args.nsample = 2
    /\ Cardinality(StdoutLines) = 1
    /\ { out[i].kind : i \in 1..Len(out) } =
         {"affinity", "calibration", "sample", "metadata", "average", "json"}

----------------------------------------------------------------------------
(* _cpu_affinity alone, on every kind of host *)

AllHosts ==
    { [has_sched_setaffinity |-> s, psutil_has_cpu_affinity |-> p, isolated |-> iso] :
        s \in BOOLEAN, p \in BOOLEAN,
        iso \in { [readable |-> FALSE, line |-> << >>],
                  [readable |-> TRUE, line |-> << >>],
                  [readable |-> TRUE, line |-> Cpus23] } }

InitAffinity ==
    /\ \E json \in BOOLEAN, verbose \in 0..2, loops \in {0, 3},
          affinity \in { << >>, Cpus01, <<"0", "-", "2", ",", "4">> } :
         args = [raw |-> TRUE, json |-> json, json_file |-> FALSE, loops |-> loops,
                 nsample |-> 3, nwarmup |-> 1, processes |-> 25,
                 verbose |-> verbose, metadata |-> verbose > 0,
                 affinity |-> affinity, min_time |-> 100, max_time |-> 1000]
    /\ inner_loops = NoInnerLoops
    /\ host \in AllHosts
    /\ sample_func = [kind |-> "linear", cost |-> 1, jitter |-> 0]
    /\ pc = "affinity"
    /\ error = NoError
    /\ pinned = << >>
    /\ out = << >>
    /\ file = << >>
    /\ index = 0
    /\ probes = << >>
    /\ ncalls = 0
    /\ run_result = NoRunResult
    /\ step = 0
    /\ calls = << >>
    /\ bench = << >>
    /\ process = 0
    /\ workers = << >>
    /\ given = NoArguments
    /\ text = << >>
    /\ parsed = Raises(None)
    /\ given_list = << >>
    /\ got_cpus = Raises(None)

NextAffinity == CpuAffinity

SpecAffinity == InitAffinity /\ [][NextAffinity]_vars

\* the host can set the affinity: os.sched_setaffinity, or psutil's
HasFacility == host.has_sched_setaffinity \/ host.psutil_has_cpu_affinity

\* the host lists isolated CPUs
IsolatedDetected == host.isolated.readable /\ host.isolated.line # << >>

Warnings(o) == { i \in 1..Len(o) : o[i].kind = "warning" }

\* C8: what a call of _cpu_affinity does (pc = "affinity" before it).  It
\* ends the process only when --affinity was given and the host has no
\* facility.  Without --affinity: with no isolated CPUs it returns, nothing
\* pinned, nothing printed; with isolated CPUs and no facility it prints a
\* warning and returns, nothing pinned; with a facility it pins the process
\* to exactly the isolated CPUs.
C8_AffinityStep ==
    pc = "affinity" /\ pc' # "affinity" =>
        /\ pc' = "exit" => args.affinity # << >> /\ ~HasFacility
        /\ pc' = "exit" <=> error'.exc # None
        /\ pc' = "exit" => pinned' = << >>
        /\ args.affinity = << >> =>
             /\ pc' # "exit"
             /\ ~IsolatedDetected => pinned' = << >> /\ out' = << >>
             /\ IsolatedDetected /\ ~HasFacility =>
                  pinned' = << >> /\ Warnings(out') # {} /\ error'.exc = None
             /\ IsolatedDetected /\ HasFacility =>
                  host.isolated.line = Cpus23 /\ pinned' = << <<2, 3>> >>

C8_AffinityOutcomes == [][C8_AffinityStep]_vars

\* the three outcomes without --affinity and the one failure, each after a
\* call: here, the warning on a host with isolated CPUs and no facility
C8_Witness ==
    /\ pc # "affinity" /\ pc # "exit"
    /\ args.affinity = << >> /\ IsolatedDetected /\ ~HasFacility
    /\ pinned = << >> /\ Warnings(out) # {}

----------------------------------------------------------------------------
(* Calibration alone: _calibrate_sample_func called with any configuration *)

SampleFuncs ==
    { [kind |-> "linear", cost |-> c, jitter |-> 0] : c \in 1..2 }
      \cup { [kind |-> k, cost |-> 0, jitter |-> 0] : k \in {"free", "increasing"} }

InitCalib ==
    /\ \E tb \in TimeBounds, v \in {0, 2} :
         args = [raw |-> TRUE, json |-> TRUE, json_file |-> FALSE, loops |-> 0,
                 nsample |-> 3, nwarmup |-> 1, processes |-> 25,
                 verbose |-> v, metadata |-> v > 0, affinity |-> << >>,
                 min_time |-> tb[1], max_time |-> tb[2]]
    /\ inner_loops = NoInnerLoops
    /\ host = NoHost
    /\ sample_func \in SampleFuncs
    /\ pc = "calibrate"
    /\ error = NoError
    /\ pinned = << >>
    /\ out = << >>
    /\ file = << >>
    /\ index = 0
    /\ probes = << >>
    /\ ncalls = 0
    /\ run_result = NoRunResult
    /\ step = 0
    /\ calls = << >>
    /\ bench = << >>
    /\ process = 0
    /\ workers = << >>
    /\ given = NoArguments
    /\ text = << >>
    /\ parsed = Raises(None)
    /\ given_list = << >>
    /\ got_cpus = Raises(None)

NextCalib == CalibrateProbe

SpecCalib == InitCalib /\ [][NextCalib]_vars

----------------------------------------------------------------------------
(* Claims about calibration, checked under SpecCalib *)

\* calibration has returned
Calibrated == pc = "dispatch" /\ probes # << >>

\* the index and the duration of the last probe
LastK == Len(probes) - 1
LastDt == probes[Len(probes)].dt

\* C1: the probes are made with loops = 10^k for k = 0, 1, ... in increasing
\* order; the loop goes on while a probe is below both max_time and
\* 0.9 * min_time; at the first probe k that is not, the result is
\* 10^max(k-1, 0) when its duration is >= max_time, and 10^k otherwise; when
\* all ten probes are below both, the result is 10^9.  Both comparisons are
\* inclusive and max_time is tested first: with 1 tick per loop,
\* min_time = 100 and max_time = 1000 the result is 100.
C1_CalibrationRule ==
    /\ \A j \in 1..Len(probes) : probes[j].loops = Pow10(j - 1)
    /\ Len(probes) <= 10
    /\ \A j \in 1..Len(probes) :
         (j < Len(probes) \/ pc = "calibrate")
            => /\ probes[j].dt < args.max_time
               /\ 10 * probes[j].dt < 9 * args.min_time
    /\ Calibrated =>
         IF LastDt >= args.max_time
         THEN args.loops = Pow10(IF LastK = 0 THEN 0 ELSE LastK - 1)
         ELSE IF 10 * LastDt >= 9 * args.min_time
         THEN args.loops = Pow10(LastK)
         ELSE LastK = 9 /\ args.loops = 1000000000
    /\ ( /\ Calibrated
         /\ sample_func = [kind |-> "linear", cost |-> 1, jitter |-> 0]
         /\ args.min_time = 100 /\ args.max_time = 1000 )
         => args.loops = 100 /\ Len(probes) = 3

\* calibration ends at a probe of exactly max_time, made after three shorter
\* ones, and steps back to 100 loops
C1_Witness ==
    /\ Calibrated
    /\ args.min_time = 100 /\ args.max_time = 1000
    /\ LastDt = 1000 /\ LastK = 3 /\ args.loops = 100

\* the durations of the probes are strictly increasing
IncreasingProbes ==
    \A j \in 1..Len(probes) - 1 : probes[j].dt < probes[j + 1].dt

\* C2: when the measured durations are increasing, calibration makes at most
\* 10 calls of sample_func, has returned once it made 10, and returns a power
\* of ten between 10^0 and 10^9
C2_CalibrationTerminates ==
    IncreasingProbes =>
        /\ ncalls <= 10 /\ Len(probes) = ncalls
        /\ ncalls = 10 => pc # "calibrate"
        /\ pc = "calibrate" => ENABLED CalibrateProbe
        /\ Calibrated =>
              /\ args.loops >= 1
              /\ \E k \in 0..9 : args.loops = Pow10(k)

\* an increasing measure that needed all ten probes
C2_Witness ==
    /\ Calibrated /\ IncreasingProbes /\ ncalls = 10
    /\ probes[1].dt < probes[10].dt

----------------------------------------------------------------------------
(* The round trip of a RunResult through its JSON text *)

\* RunResult(samples=..., warmups=..., loops=...)
Construct ==
    /\ pc = "construct"
    /\ LET r == RunResult_init(given.samples, given.warmups, given.loops) IN
         IF r.raised
         THEN /\ error' = Failure(r.exc)
              /\ pc' = "exit"
              /\ UNCHANGED run_result
         ELSE /\ run_result' = r.value
              /\ pc' = "built"
              /\ UNCHANGED error
    /\ UNCHANGED <<args, inner_loops, host, sample_func, pinned, out, file, ncalls>>
    /\ UNCHANGED <<calVars, step, calls, orchVars, jsonVars, parseVars>>

\* text = r.json()
Json ==
    /\ pc = "built"
    /\ text' = RunResult_json(run_result)
    /\ pc' = "dumped"
    /\ UNCHANGED <<args, inner_loops, host, sample_func, procVars, ncalls>>
    /\ UNCHANGED <<calVars, workerVars, orchVars, given, parsed, parseVars>>

\* RunResult.from_json(text)
FromJson ==
    /\ pc = "dumped"
    /\ parsed' = RunResult_from_json(text)
    /\ pc' = "loaded"
    /\ UNCHANGED <<args, inner_loops, host, sample_func, procVars, ncalls>>
    /\ UNCHANGED <<calVars, workerVars, orchVars, given, text, parseVars>>

\* the values given as samples and warmups: floats, among them a negative
\* one, and an int
GivenValues == { PyFloat(0, 1), PyFloat(9, 1000), PyFloat(11, 1000), PyFloat(-1, 100), PyInt(1) }

\* the lists of at most n of these values, and None
RECURSIVE GivenLists(_)
GivenLists(n) ==
    IF n = 0 THEN { << >> }
    ELSE LET shorter == GivenLists(n - 1) IN
         shorter \cup { Append(l, x) : l \in shorter, x \in GivenValues }

GivenLoops == { PyNone, PyInt(0), PyInt(1000), PyInt(-1), PyFloat(1, 1) }

InitJson ==
    /\ args = [raw |-> TRUE, json |-> TRUE, json_file |-> FALSE, loops |-> 0,
               nsample |-> 3, nwarmup |-> 1, processes |-> 25,
               verbose |-> 0, metadata |-> FALSE, affinity |-> << >>,
               min_time |-> 100, max_time |-> 1000]
    /\ inner_loops = NoInnerLoops
    /\ host = NoHost
    /\ sample_func = [kind |-> "linear", cost |-> 1, jitter |-> 0]
    /\ pc = "construct"
    /\ error = NoError
    /\ pinned = << >>
    /\ out = << >>
    /\ file = << >>
    /\ index = 0
    /\ probes = << >>
    /\ ncalls = 0
    /\ run_result = NoRunResult
    /\ step = 0
    /\ calls = << >>
    /\ bench = << >>
    /\ process = 0
    /\ workers = << >>
    /\ \E s \in { PyList(l) : l \in GivenLists(MaxLen) } \cup { PyNone },
          w \in { PyList(l) : l \in GivenLists(MaxLen) } \cup { PyNone },
          l \in GivenLoops :
         given = [samples |-> s, warmups |-> w, loops |-> l]
    /\ text = << >>
    /\ parsed = Raises(None)
    /\ given_list = << >>
    /\ got_cpus = Raises(None)

NextJson == Construct \/ Json \/ FromJson

SpecJson == InitJson /\ [][NextJson]_vars

\* the body of the document in text: the dict under "run_result"
DocumentBody == GetItem(Loads(text).value, "run_result")

\* C10: a RunResult that was built (loops None or an int >= 0, samples and
\* warmups floats >= 0) comes back from from_json(r.json()) with equal loops,
\* equal warmups and equal samples, in the same order; the document has a
\* "loops" member exactly when loops is not None
C10_RoundTrip ==
    /\ pc \in {"built", "dumped", "loaded"} =>
         /\ run_result.loops.t = "none"
              \/ (run_result.loops.t = "int" /\ run_result.loops.n >= 0)
         /\ \A i \in 1..Len(run_result.samples) :
              run_result.samples[i].t = "float" /\ run_result.samples[i].n >= 0
         /\ \A i \in 1..Len(run_result.warmups) :
              run_result.warmups[i].t = "float" /\ run_result.warmups[i].n >= 0
    /\ pc \in {"dumped", "loaded"} =>
         /\ ~Loads(text).raised
         /\ HasKey(DocumentBody, "loops") <=> run_result.loops.t # "none"
    /\ pc = "loaded" =>
         /\ ~parsed.raised
         /\ parsed.value.loops = run_result.loops
         /\ parsed.value.warmups = run_result.warmups
         /\ parsed.value.samples = run_result.samples

\* the example of the specification, and a RunResult without loops
C10_Witness ==
    /\ pc = "loaded"
    /\ run_result.loops = PyInt(1000)
    /\ run_result.warmups = <<PyFloat(9, 1000)>>
    /\ run_result.samples = <<PyFloat(9, 1000), PyFloat(11, 1000)>>
    /\ parsed.value = run_result

----------------------------------------------------------------------------
(* The step back of calibration, under SpecCalib                           *)

\* calibration ended at a probe k >= 1 that measured max_time or more
SteppedBack == Calibrated /\ LastK >= 1 /\ ReachesMax(LastDt, args)

\* the probe before the last one
PreviousProbe == probes[Len(probes) - 1]

\* C12: whenever calibration stops because a probe k >= 1 measured max_time
\* or more, the loop count it returns, 10^(k-1), is the one of the probe
\* before, and that probe measured less than 0.9 * min_time: the returned
\* count was never seen to reach the lower bound
C12_StepBackBelowMin ==
    SteppedBack =>
        /\ args.loops = Pow10(LastK - 1)
        /\ PreviousProbe.loops = args.loops
        /\ ~ReachesMin(PreviousProbe.dt, args)
        /\ \A j \in 1..Len(probes) - 1 : probes[j].loops # args.loops
                                             \/ ~ReachesMin(probes[j].dt, args)

\* a measure that jumps from 1 tick at 10 loops to more than max_time at
\* 100 loops: 10 loops are returned
C12_Witness ==
    /\ SteppedBack
    /\ args.min_time = 100 /\ args.max_time = 1000
    /\ LastK = 2 /\ PreviousProbe.dt = 1 /\ LastDt = 1001
    /\ args.loops = 10

----------------------------------------------------------------------------
(* Calibration in an orchestrator session, under Spec                      *)

\* the session is an orchestrator that was started with loops = 0: it is
\* about to calibrate, or has made calibration probes
CalibratingSession ==
    /\ ~args.raw
    /\ \/ pc \in {"affinity", "calibrate"} /\ args.loops = 0
       \/ probes # << >>

\* the probes recorded are those of one run of _calibrate_sample_func: the
\* loop counts 1, 10, 100, ... in order, none but the last ending the loop
OneCalibration ==
    /\ ncalls = Len(probes)
    /\ \A j \in 1..Len(probes) : probes[j].loops = Pow10(j - 1)
    /\ \A j \in 1..Len(probes) - 1 : ~CalibrateStops(j - 1, probes[j].dt, args)

\* C13: in an orchestrator session started with loops = 0, calibration runs
\* once in the parent and is over before the first worker is spawned; every
\* worker gets the same --loops, which is the calibrated count and is at
\* least 1, and the same --samples and --warmups, so no worker is given
\* --loops 0 to calibrate for itself
C13_CalibratedOnceInParent ==
    CalibratingSession =>
        /\ OneCalibration
        /\ workers # << >> =>
              /\ pc \notin {"affinity", "calibrate"}
              /\ probes # << >>
              /\ CalibrateStops(LastK, LastDt, args)
              /\ args.loops = Pow10(CalibrateIndex(LastK, LastDt, args))
              /\ args.loops >= 1
        /\ \A i \in 1..Len(workers) :
              /\ workers[i].argv.loops = FormatInt(args.loops)
              /\ ParseInt(workers[i].argv.loops) = Returns(args.loops)
              /\ workers[i].argv.samples = FormatInt(args.nsample)
              /\ workers[i].argv.warmups = FormatInt(args.nwarmup)
              /\ workers[i].argv.raw
              /\ workers[i].argv = workers[1].argv

\* two probes gave 10 loops, and two workers were run with --loops 10
C13_Witness ==
    /\ CalibratingSession /\ pc = "done"
    /\ Len(probes) = 2 /\ args.loops = 10
    /\ Len(workers) = 2
    /\ \A i \in 1..2 : workers[i].argv.loops = <<"1", "0">>

----------------------------------------------------------------------------
(* _parse_cpu_list on its own                                              *)

\* the longest text given to _parse_cpu_list
MaxText == 5

\* the characters of the texts: three digits and the two separators
CpuListChars == {"0", "2", "4", ",", "-"}

\* the texts of at most n of these characters
Texts(n) == UNION { [1..k -> CpuListChars] : k \in 0..n }

\* got_cpus = _parse_cpu_list(given_list)
CallParseCpuList ==
    /\ pc = "parse"
    /\ got_cpus' = ParseCpuList(given_list)
    /\ pc' = "parsed"
    /\ UNCHANGED <<args, inner_loops, host, sample_func, procVars, ncalls>>
    /\ UNCHANGED <<calVars, workerVars, orchVars, jsonVars, given_list>>

InitParse ==
    /\ args = [raw |-> TRUE, json |-> TRUE, json_file |-> FALSE, loops |-> 0,
               nsample |-> 3, nwarmup |-> 1, processes |-> 25,
               verbose |-> 0, metadata |-> FALSE, affinity |-> << >>,
               min_time |-> 100, max_time |-> 1000]
    /\ inner_loops = NoInnerLoops
    /\ host = NoHost
    /\ sample_func = [kind |-> "linear", cost |-> 1, jitter |-> 0]
    /\ pc = "parse"
    /\ error = NoError
    /\ pinned = << >>
    /\ out = << >>
    /\ file = << >>
    /\ index = 0
    /\ probes = << >>
    /\ ncalls = 0
    /\ run_result = NoRunResult
    /\ step = 0
    /\ calls = << >>
    /\ bench = << >>
    /\ process = 0
    /\ workers = << >>
    /\ given = NoArguments
    /\ text = << >>
    /\ parsed = Raises(None)
    /\ given_list \in Texts(MaxText)
    /\ got_cpus = Raises(None)

NextParse == CallParseCpuList

SpecParse == InitParse /\ [][NextParse]_vars

\* what a CPU list means, read off the text without the parser: a number is
\* a run of digits, a part is a number or two numbers around one "-", and
\* the parts are the stretches of text between the commas
IsNumber(s) == s # << >> /\ \A i \in 1..Len(s) : IsDigit(s[i])

IsRange(s, k) ==
    /\ k \in 1..Len(s) /\ s[k] = "-"
    /\ IsNumber(SubSeq(s, 1, k - 1))
    /\ IsNumber(SubSeq(s, k + 1, Len(s)))

RangeCpus(s, k) ==
    DigitsValue(SubSeq(s, 1, k - 1)) .. DigitsValue(SubSeq(s, k + 1, Len(s)))

IsPart(s) == IsNumber(s) \/ \E k \in 1..Len(s) : IsRange(s, k)

PartCpus(s) ==
    IF IsNumber(s) THEN { DigitsValue(s) }
    ELSE UNION { RangeCpus(s, k) : k \in { j \in 1..Len(s) : IsRange(s, j) } }

\* the parts of s: from one comma (or the start) to the next (or the end)
Bounds(s) == {0, Len(s) + 1} \cup { i \in 1..Len(s) : s[i] = "," }

PartsOf(s) ==
    { SubSeq(s, i + 1, j - 1) :
        <<i, j>> \in { b \in Bounds(s) \X Bounds(s) :
                         /\ b[1] < b[2]
                         /\ \A m \in Bounds(s) : ~(b[1] < m /\ m < b[2]) } }

IsCpuList(s) == \A part \in PartsOf(s) : IsPart(part)

ListedCpus(s) == UNION { PartCpus(part) : part \in PartsOf(s) }

\* a lone range whose first number is above its last
IsReversedRange(s) ==
    \E k \in 1..Len(s) : IsRange(s, k) /\ RangeCpus(s, k) = {}

Elements(seq) == { seq[i] : i \in 1..Len(seq) }

\* C11: _parse_cpu_list gives a list of integers and inclusive ranges
\* exactly the CPUs it lists ("0-2,4" gives 0, 1, 2, 4), and a reversed
\* range a-b with a > b always gives no CPU and raises nothing
C11_ParseCpuList ==
    pc = "parsed" =>
        /\ IsCpuList(given_list) =>
             ~got_cpus.raised /\ Elements(got_cpus.value) = ListedCpus(given_list)
        /\ given_list = <<"0", "-", "2", ",", "4">> => got_cpus = Returns(<<0, 1, 2, 4>>)
        /\ IsReversedRange(given_list) => got_cpus = Returns(<< >>)

\* "4-2,0" was parsed: the reversed range gave nothing, the list gave CPU 0
C11_Witness ==
    /\ pc = "parsed"
    /\ given_list = <<"4", "-", "2", ",", "0">>
    /\ IsCpuList(given_list)
    /\ \E part \in PartsOf(given_list) : IsReversedRange(part)
    /\ got_cpus = Returns(<<0>>)

====
